---------------------------- MODULE Spec2Model ----------------------------
(***************************************************************************)
(* A model of src/web/app.js: the browser client that connects to a        *)
(* SignalWire agent, normalises the agent's user events and reflects them  *)
(* in the page.  The page runs on one event loop: every action below is    *)
(* one run-to-completion piece of the script (a call of connect() or       *)
(* disconnect() up to its first await, the continuation after an await, a  *)
(* session notification handler, an event handler).                        *)
(***************************************************************************)
EXTENDS Integers, Sequences, FiniteSets, TLC

(***************************************************************************)
(* Bounds of the model and constants of the program.                       *)
(***************************************************************************)
\* handshakes started by connect()
MaxConnects == 2
\* hangup() calls made by disconnect()
MaxHangups == 2
\* user events delivered to handleUserEvent
MaxEvents == 2
\* direct logEvent calls explored by the event-log specification (beyond LogLimit)
MaxAppends == 52
\* of those, how many may carry a type other than 'system'
MaxVaried == 2
\* handshakes started in the specification that also delivers user events
MaxLive == 1
\* user events delivered on the subscribed channels in that specification
MaxDeliveries == 4
\* app.js:375  while (eventLogEl.children.length > 50)
LogLimit == 50

(***************************************************************************)
(* JavaScript values, as far as the event payloads need them.              *)
(***************************************************************************)
Undefined == [t |-> "undefined"]
Null == [t |-> "null"]
Str(s) == [t |-> "string", v |-> s]
Num(n) == [t |-> "number", v |-> n]
Obj(fields) == [t |-> "object", v |-> fields]

\* ToBoolean: undefined, null, "" and 0 are falsy; objects are truthy
Truthy(x) ==
    CASE x.t = "undefined" -> FALSE
      [] x.t = "null" -> FALSE
      [] x.t = "string" -> x.v # ""
      [] x.t = "number" -> x.v # 0
      [] OTHER -> TRUE

\* o.k for a value o that is not null or undefined: a missing property, and
\* any of these properties of a string or a number, reads as undefined
Get(o, k) ==
    IF o.t = "object" /\ k \in DOMAIN o.v THEN o.v[k] ELSE Undefined

\* a || b
OrElse(a, b) == IF Truthy(a) THEN a ELSE b

\* template-literal / textContent conversion of a value to text
ToText(x) ==
    CASE x.t = "string" -> x.v
      [] x.t = "number" -> ToString(x.v)
      [] x.t = "undefined" -> "undefined"
      [] x.t = "null" -> "null"
      [] OTHER -> "[object Object]"

(***************************************************************************)
(* The script's globals and the page elements it writes, as one record G:  *)
(*   client, roomSession      0 is null, otherwise the id of the handshake *)
(*                            that created the object                      *)
(*   currentToken, currentDestination   "" is null                         *)
(*   isConnected                                                           *)
(*   statusEl                 className (without the 'status ' prefix) and *)
(*                            text; seen lists the classes written by the  *)
(*                            handler that ran last, in order              *)
(*   connectDisabled, disconnectDisabled   the buttons' disabled property  *)
(*   placeholder              whether the video placeholder is displayed   *)
(*   counterValue, lastGreeting, lastEcho  textContent of the displays     *)
(*   logged                   the logEvent calls made by the handler that  *)
(*                            ran last, in order                           *)
(* The event log itself (the children of #event-log) is the variable       *)
(* eventLog.  The script only ever writes to it.  SpecEvents and SpecLog   *)
(* keep it whole; Spec and SpecChannels, whose handlers interleave without *)
(* bound, do not follow it and have each handler's logEvent calls in       *)
(* logged only.                                                            *)
(*   uncaught                 the error the handler that ran last threw    *)
(*                            out to its caller, "" when none              *)
(***************************************************************************)
\* app.js:24-34  the globals as declared
InitGlobals ==
    [ client |-> 0,
      roomSession |-> 0,
      currentToken |-> "",
      currentDestination |-> "",
      isConnected |-> FALSE ]

\* the text of a display no event has written yet
NoText == "-"

\* The elements as the page's markup delivers them.  The markup is not part
\* of app.js; it is taken to show the idle state: status 'ready', connect
\* enabled, disconnect disabled, the placeholder in the video container.
InitPage ==
    [ statusEl |-> [className |-> "ready", text |-> "Ready", seen |-> <<>>],
      connectDisabled |-> FALSE,
      disconnectDisabled |-> TRUE,
      placeholder |-> TRUE,
      counterValue |-> NoText,
      lastGreeting |-> NoText,
      lastEcho |-> NoText ]

InitG == InitGlobals @@ InitPage @@ [logged |-> <<>>, uncaught |-> ""]

\* a handler starts with nothing written to the status element or logged yet,
\* and no error thrown
Enter(G) == [G EXCEPT !.statusEl.seen = <<>>, !.logged = <<>>, !.uncaught = ""]

\* app.js:363-367  an entry: its class and its message (the time of day the
\* script puts in front of the message is left out)
LogEntry(type, message) == [type |-> type, message |-> message]

\* TrimLog with the loop's test written >= : one entry too many is dropped
TrimLogOffByOne(entries) ==
    IF Len(entries) >= LogLimit
    THEN SubSeq(entries, Len(entries) - LogLimit + 2, Len(entries))
    ELSE entries

\* app.js:375-377  drop children from the front while more than LogLimit
RECURSIVE TrimLog(_)
TrimLog(entries) ==
    IF Len(entries) > LogLimit THEN TrimLog(Tail(entries)) ELSE entries

\* app.js:362-378  logEvent on the children of #event-log
logEvent(entries, type, message) ==
    TrimLog(Append(entries, LogEntry(type, message)))

\* a handler's call logEvent(type, message)
log(G, type, message) ==
    [G EXCEPT !.logged = Append(@, LogEntry(type, message))]

\* the event log after the calls a handler made
RECURSIVE Flush(_, _)
Flush(entries, calls) ==
    IF calls = <<>> THEN entries
    ELSE Flush(logEvent(entries, Head(calls).type, Head(calls).message), Tail(calls))

\* app.js:341-344
updateStatus(G, state, text) ==
    [G EXCEPT !.statusEl = [className |-> state, text |-> text,
                            seen |-> Append(@.seen, state)]]

\* app.js:350-353
updateButtons(G) ==
    [G EXCEPT !.connectDisabled = G.isConnected,
              !.disconnectDisabled = ~G.isConnected]

\* handleDisconnect without its call of updateButtons
handleDisconnectNoButtons(G) ==
    updateStatus(
        [G EXCEPT !.isConnected = FALSE,
                  !.roomSession = 0,
                  !.placeholder = TRUE],
        "disconnected", "Disconnected")

\* app.js:229-238
handleDisconnect(G) ==
    updateButtons(
        updateStatus(
            [G EXCEPT !.isConnected = FALSE,
                      !.roomSession = 0,
                      !.placeholder = TRUE],
            "disconnected", "Disconnected"))

\* app.js:386-387  the two entries logged when the script loads
Loaded ==
    log(log(InitG, "system", "Application loaded"),
        "system", "Ready to connect to SignalWire AI agent")


(***************************************************************************)
(* The state.                                                              *)
(*   g      the script's globals and page elements (see InitG)             *)
(*   att    one record per handshake started by connect(), with what the   *)
(*          SDK holds for it: the client it created, the session it        *)
(*          dialed, the handlers registered on them, the hangup promises   *)
(*          still pending                                                  *)
(*   calls  how many events were delivered and how many direct logEvent    *)
(*          calls were made, in the specifications that bound them         *)
(*   op     the handler that ran last: its name, the handshake it belongs  *)
(*          to (0: none) and, when it ran the teardown path, nth = 2 if    *)
(*          the handler before it ran the teardown path too, else 1        *)
(*   eventLog  the children of #event-log, oldest first (left as loaded by *)
(*          Spec and SpecChannels)                                         *)
(*   appended  every entry ever passed to logEvent, in order, in the       *)
(*          specifications that keep eventLog                              *)
(***************************************************************************)
VARIABLES g, att, calls, op, eventLog, appended

vars == <<g, att, calls, op, eventLog, appended>>

Attempts == 1..MaxConnects

\* what the token endpoint answers to the fetch of handshake i: every answer is
\* taken to differ from the others, so that a value one handshake fetched is
\* recognised when another handshake uses it
TokenOf(i) == "token-" \o ToString(i)
AddressOf(i) == "/private/agent-" \o ToString(i)

ClientChannels == <<"user_event", "calling.user_event", "signalwire.event">>
SessionEvents == <<"user_event", "room.joined", "room.left", "destroy">>

\* the first k elements of a sequence, as a set
FirstOf(seq, k) == {seq[j] : j \in 1..k}

IdleAttempt ==
    [ pc |-> "idle",          \* idle, fetch, json, init, dial, start, done, failed
      token |-> "",           \* the token this handshake's fetch returned
      address |-> "",         \* the address this handshake's fetch returned
      clientToken |-> "",     \* the token its client was created with
      subs |-> {},            \* channels subscribed on its client
      dialTo |-> "",          \* the destination its dial was addressed to
      session |-> FALSE,      \* its dial returned a session
      handlers |-> {},        \* events subscribed on its session
      started |-> FALSE,      \* start() was called on its session
      fired |-> {},           \* notifications its session has delivered
      hangups |-> 0,          \* hangup() calls made on its session
      pending |-> 0,          \* of those, promises not settled yet
      failStep |-> 0 ]        \* the connect step that failed, 1..6

Init ==
    /\ g = Loaded
    /\ att = [i \in Attempts |-> IdleAttempt]
    /\ calls = [events |-> 0, appends |-> 0, varied |-> 0]
    /\ op = [name |-> "load", id |-> 0]
    /\ eventLog = Flush(<<>>, Loaded.logged)
    /\ appended = Loaded.logged

Ran(name, i) == [name |-> name, id |-> i]

\* the handlers that run handleDisconnect
TeardownOps ==
    {"connect.failed", "room.left", "destroy", "hangup.resolved",
     "hangup.rejected", "hangup.threw", "disconnect.nosession"}

RanTeardown(name, i) ==
    [name |-> name, id |-> i, nth |-> IF op.name \in TeardownOps THEN 2 ELSE 1]

\* the handshakes started so far, and the hangup() calls made so far
Begun == Cardinality({i \in Attempts : att[i].pc # "idle"})

RECURSIVE SumHangups(_)
SumHangups(ids) ==
    IF ids = {} THEN 0
    ELSE LET i == CHOOSE j \in ids : TRUE IN att[i].hangups + SumHangups(ids \ {i})

Hangups == SumHangups(Attempts)

(***************************************************************************)
(* connect(), app.js:65-199.                                               *)
(***************************************************************************)
\* app.js:66  the guard of connect(): true when connect() returns at once
connectRefused(G) == G.isConnected

\* reading a property of undefined or null throws a TypeError
Nullish(x) == x.t \in {"undefined", "null"}

\* the values a failed step is rejected or thrown with: an Error carrying the
\* message, or no value at all
Rejections(message) == {Obj("message" :> Str(message)), Undefined, Null}

\* app.js:193-198  the catch block; error.message is read first, and thrown
\* out of connect() when error is undefined or null
connectFailed(G, error) ==
    IF Nullish(error) THEN [G EXCEPT !.uncaught = "TypeError"]
    ELSE handleDisconnect(
            updateStatus(
                log(G, "error", "Connection failed: " \o ToText(Get(error, "message"))),
                "error", "Connection failed"))

\* app.js:66-69
ConnectNoop ==
    /\ connectRefused(g)
    /\ g' = log(Enter(g), "system", "Already connected")
    /\ op' = Ran("connect.noop", 0)
    /\ UNCHANGED <<att, calls>>
    /\ UNCHANGED <<eventLog, appended>>

\* app.js:71-79  up to the fetch
ConnectBegin ==
    /\ Begun < MaxConnects
    /\ ~connectRefused(g)
    /\ LET i == Begun + 1 IN
        /\ g' = log(updateStatus(Enter(g), "connecting", "Getting token..."),
                         "system", "Fetching authentication token...")
        /\ att' = [att EXCEPT ![i].pc = "fetch"]
        /\ op' = Ran("connect", i)
    /\ UNCHANGED calls
    /\ UNCHANGED <<eventLog, appended>>

\* a step of handshake i failed with error: the catch block runs
Fail(i, step, error, G, A) ==
    /\ g' = connectFailed(G, error)
    /\ att' = [A EXCEPT ![i].pc = "failed", ![i].failStep = step]
    /\ op' = IF Nullish(error) THEN Ran("connect.threw", i)
             ELSE RanTeardown("connect.failed", i)
    /\ UNCHANGED calls
    /\ UNCHANGED <<eventLog, appended>>

\* app.js:79-80  fetch resolved, json() is awaited
FetchResolved(i) ==
    /\ att[i].pc = "fetch"
    /\ g' = Enter(g)
    /\ att' = [att EXCEPT ![i].pc = "json"]
    /\ op' = Ran("connect.fetched", i)
    /\ UNCHANGED calls
    /\ UNCHANGED <<eventLog, appended>>

\* app.js:79  fetch rejected
FetchRejected(i) ==
    /\ att[i].pc = "fetch"
    /\ \E error \in Rejections("Failed to fetch") :
         Fail(i, 1, error, Enter(g), att)

\* app.js:80  json() rejected
JsonRejected(i) ==
    /\ att[i].pc = "json"
    /\ \E error \in Rejections("Unexpected token") :
         Fail(i, 1, error, Enter(g), att)

\* app.js:82-84  the backend answered { error }
TokenError(i) ==
    /\ att[i].pc = "json"
    /\ Fail(i, 1, Obj("message" :> Str("Token creation failed")), Enter(g), att)

\* app.js:86-98  the backend answered { token, address }; the client is requested
TokenReceived(i) ==
    /\ att[i].pc = "json"
    /\ LET token == TokenOf(i)
           address == AddressOf(i)
           G1 == [Enter(g) EXCEPT !.currentToken = token,
                                  !.currentDestination = address]
           G2 == log(G1, "system",
                          "Token received, destination: " \o G1.currentDestination)
       IN
        /\ g' = updateStatus(G2, "connecting", "Initializing client...")
        /\ att' = [att EXCEPT ![i].pc = "init", ![i].token = token,
                              ![i].address = address,
                              ![i].clientToken = G2.currentToken]
    /\ op' = Ran("connect.token", i)
    /\ UNCHANGED calls
    /\ UNCHANGED <<eventLog, appended>>

\* app.js:95  SignalWire() rejected
InitRejected(i) ==
    /\ att[i].pc = "init"
    /\ \E error \in Rejections("Client init failed") :
         Fail(i, 2, error, Enter(g), att)

\* app.js:95-108  SignalWire() resolved, and client.on threw after k subscriptions
SubscribeFailed(i, k) ==
    /\ att[i].pc = "init"
    /\ LET G1 == log([Enter(g) EXCEPT !.client = i], "system", "Client initialized")
       IN \E error \in Rejections("client.on failed") :
            Fail(i, 3, error, G1,
                 [att EXCEPT ![i].subs = FirstOf(ClientChannels, k)])

\* app.js:95-148  SignalWire() resolved; subscriptions made; dial is requested
ClientReady(i) ==
    /\ att[i].pc = "init"
    /\ LET G1 == log([Enter(g) EXCEPT !.client = i], "system", "Client initialized")
       IN
        /\ g' = updateStatus(G1, "connecting", "Dialing agent...")
        /\ att' = [att EXCEPT ![i].pc = "dial",
                              ![i].subs = FirstOf(ClientChannels, 3),
                              ![i].dialTo = G1.currentDestination]
    /\ op' = Ran("connect.client", i)
    /\ UNCHANGED calls
    /\ UNCHANGED <<eventLog, appended>>

\* app.js:132  dial rejected
DialRejected(i) ==
    /\ att[i].pc = "dial"
    /\ \E error \in Rejections("Dial failed") :
         Fail(i, 4, error, Enter(g), att)

\* app.js:132-157  dial resolved, and roomSession.on threw after k subscriptions
SessionSubscribeFailed(i, k) ==
    /\ att[i].pc = "dial"
    /\ LET G1 == log([Enter(g) EXCEPT !.roomSession = i], "system",
                          "Call initiated, waiting for connection...")
       IN \E error \in Rejections("roomSession.on failed") :
            Fail(i, 5, error, G1,
                 [att EXCEPT ![i].session = TRUE,
                             ![i].handlers = FirstOf(SessionEvents, k)])

\* dial resolved and start() is called with no handler registered yet
DialedStartsFirst(i) ==
    /\ att[i].pc = "dial"
    /\ g' = log([Enter(g) EXCEPT !.roomSession = i], "system",
                     "Call initiated, waiting for connection...")
    /\ att' = [att EXCEPT ![i].pc = "start", ![i].session = TRUE,
                          ![i].started = TRUE]
    /\ op' = Ran("connect.dialed", i)
    /\ UNCHANGED calls
    /\ UNCHANGED <<eventLog, appended>>

\* app.js:132-189  dial resolved; handlers registered; start() is called
Dialed(i) ==
    /\ att[i].pc = "dial"
    /\ g' = log([Enter(g) EXCEPT !.roomSession = i], "system",
                     "Call initiated, waiting for connection...")
    /\ att' = [att EXCEPT ![i].pc = "start", ![i].session = TRUE,
                          ![i].handlers = FirstOf(SessionEvents, 4),
                          ![i].started = TRUE]
    /\ op' = Ran("connect.dialed", i)
    /\ UNCHANGED calls
    /\ UNCHANGED <<eventLog, appended>>

\* app.js:189  start() rejected
StartRejected(i) ==
    /\ att[i].pc = "start"
    /\ \E error \in Rejections("Start failed") :
         Fail(i, 6, error, Enter(g), att)

\* app.js:189-191  start() resolved
Started(i) ==
    /\ att[i].pc = "start"
    /\ g' = log(Enter(g), "system", "Call started successfully")
    /\ att' = [att EXCEPT ![i].pc = "done"]
    /\ op' = Ran("connect.started", i)
    /\ UNCHANGED calls
    /\ UNCHANGED <<eventLog, appended>>

(***************************************************************************)
(* Session notifications, app.js:163-184.  The handlers stay registered    *)
(* for good: a started session may call any of them at any time, in any    *)
(* order and more than once.                                               *)
(***************************************************************************)
\* the room.joined handler without its call of updateButtons
onRoomJoinedNoButtons(G) ==
    LET G1 == updateStatus(log(G, "system", "Connected to agent"),
                           "connected", "Connected")
    IN [G1 EXCEPT !.isConnected = TRUE, !.placeholder = FALSE]

\* app.js:163-174
onRoomJoined(G) ==
    LET G1 == updateStatus(log(G, "system", "Connected to agent"),
                           "connected", "Connected")
        G2 == updateButtons([G1 EXCEPT !.isConnected = TRUE])
    IN [G2 EXCEPT !.placeholder = FALSE]

\* app.js:176-179
onRoomLeft(G) == handleDisconnect(log(G, "system", "Disconnected from agent"))

\* app.js:181-184
onDestroy(G) == handleDisconnect(log(G, "system", "Session destroyed"))

\* the started session i calls the handler registered for event
Notify(i, event) ==
    /\ att[i].started
    /\ event \in att[i].handlers
    /\ att' = [att EXCEPT ![i].fired = @ \cup {event}]
    /\ UNCHANGED calls

RoomJoined(i) ==
    /\ Notify(i, "room.joined")
    /\ g' = onRoomJoined(Enter(g))
    /\ op' = Ran("room.joined", i)
    /\ UNCHANGED <<eventLog, appended>>

RoomLeft(i) ==
    /\ Notify(i, "room.left")
    /\ g' = onRoomLeft(Enter(g))
    /\ op' = RanTeardown("room.left", i)
    /\ UNCHANGED <<eventLog, appended>>

Destroy(i) ==
    /\ Notify(i, "destroy")
    /\ g' = onDestroy(Enter(g))
    /\ op' = RanTeardown("destroy", i)
    /\ UNCHANGED <<eventLog, appended>>

(***************************************************************************)
(* disconnect(), app.js:205-223.                                           *)
(***************************************************************************)
\* the guard of disconnect() with the test of roomSession inverted
disconnectRefusedInverted(G) == ~G.isConnected /\ G.roomSession # 0

\* app.js:206  the guard of disconnect(): true when disconnect() returns at once
disconnectRefused(G) == ~G.isConnected /\ G.roomSession = 0

\* app.js:211-212
disconnecting(G) ==
    updateStatus(log(G, "system", "Disconnecting..."),
                 "disconnecting", "Disconnecting...")

\* app.js:206-209
DisconnectNoop ==
    /\ disconnectRefused(g)
    /\ g' = log(Enter(g), "system", "Not connected")
    /\ op' = Ran("disconnect.noop", 0)
    /\ UNCHANGED <<att, calls>>
    /\ UNCHANGED <<eventLog, appended>>

\* app.js:211-216  a session exists: hangup() is called and awaited
DisconnectBegin ==
    /\ Hangups < MaxHangups
    /\ ~disconnectRefused(g)
    /\ g.roomSession # 0
    /\ g' = disconnecting(Enter(g))
    /\ att' = [att EXCEPT ![g.roomSession].hangups = @ + 1,
                          ![g.roomSession].pending = @ + 1]
    /\ op' = Ran("disconnect", g.roomSession)
    /\ UNCHANGED calls
    /\ UNCHANGED <<eventLog, appended>>

\* app.js:211-222  no session to hang up: the teardown runs in the same call
DisconnectNoSession ==
    /\ ~disconnectRefused(g)
    /\ g.roomSession = 0
    /\ g' = handleDisconnect(disconnecting(Enter(g)))
    /\ op' = RanTeardown("disconnect.nosession", 0)
    /\ UNCHANGED <<att, calls>>
    /\ UNCHANGED <<eventLog, appended>>

\* a disconnect() whose failed hangup() is not caught: the teardown is skipped
afterHangupUncaught(G, outcome) ==
    IF outcome = "resolved" THEN handleDisconnect(G) ELSE G

\* app.js:214-222  what disconnect() does once hangup() has settled: a failure
\* is caught and written to the console only, and the teardown runs either way
afterHangup(G, outcome) == handleDisconnect(G)

\* app.js:211-222  hangup() throws at the call: caught, the teardown runs in
\* the same call
DisconnectHangupThrew ==
    /\ Hangups < MaxHangups
    /\ ~disconnectRefused(g)
    /\ g.roomSession # 0
    /\ g' = afterHangup(disconnecting(Enter(g)), "threw")
    /\ att' = [att EXCEPT ![g.roomSession].hangups = @ + 1]
    /\ op' = RanTeardown("hangup.threw", g.roomSession)
    /\ UNCHANGED calls
    /\ UNCHANGED <<eventLog, appended>>

\* app.js:216-222  hangup() of session i settled, resolved or rejected
HangupSettled(i, outcome) ==
    /\ att[i].pending > 0
    /\ g' = afterHangup(Enter(g), outcome)
    /\ att' = [att EXCEPT ![i].pending = @ - 1]
    /\ op' = RanTeardown("hangup." \o outcome, i)
    /\ UNCHANGED calls
    /\ UNCHANGED <<eventLog, appended>>

HangupResolved(i) == HangupSettled(i, "resolved")

HangupRejected(i) == HangupSettled(i, "rejected")

(***************************************************************************)
(* The lifecycle specification.                                            *)
(***************************************************************************)
Next ==
    \/ ConnectNoop
    \/ ConnectBegin
    \/ DisconnectNoop
    \/ DisconnectBegin
    \/ DisconnectHangupThrew
    \/ DisconnectNoSession
    \/ \E i \in Attempts :
        \/ FetchResolved(i)
        \/ FetchRejected(i)
        \/ JsonRejected(i)
        \/ TokenError(i)
        \/ TokenReceived(i)
        \/ InitRejected(i)
        \/ \E k \in 0..2 : SubscribeFailed(i, k)
        \/ ClientReady(i)
        \/ DialRejected(i)
        \/ \E k \in 0..3 : SessionSubscribeFailed(i, k)
        \/ Dialed(i)
        \/ StartRejected(i)
        \/ Started(i)
        \/ RoomJoined(i)
        \/ RoomLeft(i)
        \/ Destroy(i)
        \/ HangupResolved(i)
        \/ HangupRejected(i)

Spec == Init /\ [][Next]_vars

(***************************************************************************)
(* User events, app.js:258-328.  (The 'highlight' class the handler adds   *)
(* and removes on a timer is styling and is left out.)                     *)
(***************************************************************************)
\* the unwrapping with the two tests in the other order: params wins
unwrapParamsFirst(params) ==
    LET byEvent == IF Truthy(params) /\ Truthy(Get(params, "event"))
                   THEN Get(params, "event") ELSE params
    IN IF Truthy(params) /\ Truthy(Get(params, "params"))
       THEN Get(params, "params") ELSE byEvent

\* app.js:265-273  the payload the handler works on
unwrap(params) ==
    LET byParams == IF Truthy(params) /\ Truthy(Get(params, "params"))
                    THEN Get(params, "params") ELSE params
    IN IF Truthy(params) /\ Truthy(Get(params, "event"))
       THEN Get(params, "event") ELSE byParams

\* app.js:283
internalTypes ==
    {"room.joined", "room.left", "member.joined", "member.left",
     "playback.started", "playback.ended"}

\* the handler's tests without the one for internal types
acceptedInternalToo(eventData) ==
    /\ Truthy(eventData)
    /\ Get(eventData, "type").t = "string"

\* app.js:277-287  true when the handler goes on to the switch
accepted(eventData) ==
    /\ Truthy(eventData)
    /\ Get(eventData, "type").t = "string"
    /\ Get(eventData, "type").v \notin internalTypes

\* the greeting case taking the event as a sign that the call is up
onGreetingMarksConnected(G, eventData) ==
    LET name == OrElse(Get(eventData, "name"), Str("Unknown"))
        G1 == updateStatus([G EXCEPT !.isConnected = TRUE], "connected", "Connected")
    IN log([updateButtons(G1) EXCEPT !.lastGreeting = "Hello, " \o ToText(name) \o "!"],
           "greeting", "Greeted: " \o ToText(name))

\* app.js:295-302
onGreeting(G, eventData) ==
    LET name == OrElse(Get(eventData, "name"), Str("Unknown"))
    IN log([G EXCEPT !.lastGreeting = "Hello, " \o ToText(name) \o "!"],
           "greeting", "Greeted: " \o ToText(name))

\* app.js:304-311
onEcho(G, eventData) ==
    LET message == OrElse(Get(eventData, "message"), Str(""))
    IN log([G EXCEPT !.lastEcho = "\"" \o ToText(message) \o "\""],
           "echo", "Echoed: " \o ToText(message))

\* app.js:313-321
onCounterUpdated(G, eventData) ==
    LET count == OrElse(Get(eventData, "count"), Num(0))
        increment == OrElse(Get(eventData, "increment"), Num(1))
    IN log([G EXCEPT !.counterValue = ToText(count)],
           "counter",
           "Counter: " \o ToText(count) \o " (+" \o ToText(increment) \o ")")

\* the default case dropping the event
onUnknownDropped(G, eventData) == G

\* app.js:323-326
onUnknown(G, eventData) ==
    log(G, "unknown", "Unknown event: " \o Get(eventData, "type").v)

\* app.js:258-328
handleUserEvent(G, params) ==
    LET eventData == unwrap(params)
    IN IF ~accepted(eventData) THEN G
       ELSE CASE Get(eventData, "type").v = "greeting" -> onGreeting(G, eventData)
              [] Get(eventData, "type").v = "echo" -> onEcho(G, eventData)
              [] Get(eventData, "type").v = "counter_updated" -> onCounterUpdated(G, eventData)
              [] OTHER -> onUnknown(G, eventData)

(***************************************************************************)
(* The raw events explored.                                                *)
(***************************************************************************)
\* one optional property: absent, or present with a value of V
Opt(k, V) == {<<>>} \cup {k :> v : v \in V}

Typed(type) == "type" :> Str(type)

GreetingPayloads ==
    {Obj(Typed("greeting") @@ n) : n \in Opt("name", {Str("Ana"), Str("")})}

EchoPayloads ==
    {Obj(Typed("echo") @@ m) : m \in Opt("message", {Str("hi"), Str("")})}

CounterPayloads ==
    {Obj(Typed("counter_updated") @@ c @@ i) :
        c \in Opt("count", {Num(0), Num(5)}),
        i \in Opt("increment", {Num(0), Num(2)})}

OtherPayloads ==
    {Obj(Typed(type)) : type \in internalTypes \cup {"foobar", ""}}
    \cup {Obj("type" :> Num(7)), Obj("data" :> Num(1)), Obj("type" :> Null)}

Payloads == GreetingPayloads \cup EchoPayloads \cup CounterPayloads \cup OtherPayloads

\* payloads combined in events that carry both params and event
PairPayloads ==
    {Obj(Typed("greeting") @@ ("name" :> Str("Ana"))),
     Obj(Typed("echo") @@ ("message" :> Str("hi"))),
     Obj(Typed("room.left")),
     Obj("data" :> Num(1))}

RawEvents ==
    Payloads
    \cup {Undefined, Null, Str("greeting"), Num(0)}
    \cup {Obj("params" :> p) : p \in Payloads \cup {Null, Str("")}}
    \cup {Obj("event" :> p) : p \in Payloads \cup {Null, Num(0)}}
    \cup {Obj(("params" :> p) @@ ("event" :> e)) : p \in PairPayloads, e \in PairPayloads}
    \cup {Obj(Typed("foobar") @@ ("params" :> p)) : p \in PairPayloads}
    \cup {Obj(Typed("greeting") @@ ("name" :> Str("Ana")) @@ ("params" :> Null)),
          Obj(Typed("echo") @@ ("message" :> Str("hi")) @@ ("event" :> Num(0)))}

\* an event reaches handleUserEvent
UserEvent(raw) ==
    /\ calls.events < MaxEvents
    /\ g' = handleUserEvent(Enter(g), raw)
    /\ eventLog' = Flush(eventLog, g'.logged)
    /\ appended' = appended \o g'.logged
    /\ calls' = [calls EXCEPT !.events = @ + 1]
    /\ op' = [name |-> "user_event", id |-> 0, raw |-> raw]
    /\ UNCHANGED att

NextEvents == \E raw \in RawEvents : UserEvent(raw)

SpecEvents == Init /\ [][NextEvents]_vars

(***************************************************************************)
(* The event log, app.js:362-378: logEvent called directly.  The message   *)
(* of a call is its number, so that every entry is recognisable.           *)
(***************************************************************************)
LogTypes == {"system", "error"}

LogEventCall(type) ==
    /\ calls.appends < MaxAppends
    /\ type # "system" => calls.varied < MaxVaried
    /\ LET message == "entry " \o ToString(calls.appends + 1) IN
        /\ eventLog' = logEvent(eventLog, type, message)
        /\ appended' = Append(appended, LogEntry(type, message))
        /\ g' = log(Enter(g), type, message)
    /\ calls' = [calls EXCEPT !.appends = @ + 1,
                              !.varied = IF type = "system" THEN @ ELSE @ + 1]
    /\ op' = Ran("logEvent", 0)
    /\ UNCHANGED att

NextLog == \E type \in LogTypes : LogEventCall(type)

SpecLog == Init /\ [][NextLog]_vars

(***************************************************************************)
(* User events arriving on the subscribed channels, app.js:108-125 and     *)
(* 157-160, while the lifecycle runs.  A client delivers on the channels   *)
(* subscribed on it from the moment it exists, a session on its user_event *)
(* handler once started; neither is ever unsubscribed.  As in Spec, the    *)
(* log is not followed: every handler's logEvent calls are in logged.      *)
(***************************************************************************)
\* app.js:108-111
onClientUserEvent(G, params) == handleUserEvent(G, params)

\* app.js:114-117
onCallingUserEvent(G, params) == handleUserEvent(G, params)

\* app.js:120-125  params.event_type is read first: a TypeError leaves the
\* callback when params is undefined or null
onSignalwireEvent(G, params) ==
    IF Nullish(params) THEN [G EXCEPT !.uncaught = "TypeError"]
    ELSE IF Get(params, "event_type") = Str("user_event")
    THEN handleUserEvent(G, OrElse(Get(params, "params"), params))
    ELSE G

\* app.js:157-160
onSessionUserEvent(G, params) == handleUserEvent(G, params)

\* the events the agent sends in this specification
ChannelPayloads ==
    {Obj(Typed("greeting") @@ ("name" :> Str("Ana"))),
     Obj(Typed("counter_updated") @@ ("count" :> Num(5))),
     Obj(Typed("room.left"))}

\* the event types a signalwire.event notification arrives with
EnvelopeTypes == {"user_event", "calling.call.state"}

\* the generic notification carrying a payload
Envelope(type, payload) == Obj(("event_type" :> Str(type)) @@ ("params" :> payload))

\* the channels on which the payload of the last delivery has arrived in a
\* row, how many times, and the logEvent calls those deliveries made
Arrivals(channel, payload, logged) ==
    IF op.name = "deliver" /\ op.payload = payload
    THEN [via |-> op.via \cup {channel}, run |-> op.run + 1,
          entries |-> op.entries \o logged]
    ELSE [via |-> {channel}, run |-> 1, entries |-> logged]

\* a delivery that is dropped when the same payload was delivered just before
DeliverOnce(i, channel, payload, G) ==
    /\ calls.events < MaxDeliveries
    /\ g' = IF op.name = "deliver" /\ op.payload = payload THEN Enter(g) ELSE G
    /\ calls' = [calls EXCEPT !.events = @ + 1]
    /\ op' = [name |-> "deliver", id |-> i, channel |-> channel,
              payload |-> payload] @@ Arrivals(channel, payload, g'.logged)
    /\ UNCHANGED <<att, eventLog, appended>>

\* app.js:108-125, 157-160  a subscribed callback ran on a user event and left G
Deliver(i, channel, payload, G) ==
    /\ calls.events < MaxDeliveries
    /\ g' = G
    /\ calls' = [calls EXCEPT !.events = @ + 1]
    /\ op' = [name |-> "deliver", id |-> i, channel |-> channel,
              payload |-> payload] @@ Arrivals(channel, payload, g'.logged)
    /\ UNCHANGED <<att, eventLog, appended>>

\* app.js:108-111
ClientUserEvent(i, payload) ==
    /\ "user_event" \in att[i].subs
    /\ Deliver(i, "client user_event", payload,
               onClientUserEvent(Enter(g), payload))

\* app.js:114-117
CallingUserEvent(i, payload) ==
    /\ "calling.user_event" \in att[i].subs
    /\ Deliver(i, "client calling.user_event", payload,
               onCallingUserEvent(Enter(g), payload))

\* app.js:120-125  a generic notification of type user_event
SignalwireUserEvent(i, payload) ==
    /\ "signalwire.event" \in att[i].subs
    /\ Deliver(i, "client signalwire.event", payload,
               onSignalwireEvent(Enter(g), Envelope("user_event", payload)))

\* app.js:120-125  a generic notification of another type, or with no
\* parameters at all
SignalwireOther(i, payload) ==
    /\ "signalwire.event" \in att[i].subs
    /\ calls.events < MaxDeliveries
    /\ \E params \in {Envelope("calling.call.state", payload), Undefined, Null} :
          g' = onSignalwireEvent(Enter(g), params)
    /\ calls' = [calls EXCEPT !.events = @ + 1]
    /\ op' = [name |-> "signalwire.other", id |-> i, payload |-> payload]
    /\ UNCHANGED <<att, eventLog, appended>>

\* app.js:157-160
SessionUserEvent(i, payload) ==
    /\ att[i].started
    /\ "user_event" \in att[i].handlers
    /\ Deliver(i, "session user_event", payload,
               onSessionUserEvent(Enter(g), payload))

\* a lifecycle step, within the handshakes of this specification
Lifecycle ==
    /\ Next
    /\ Cardinality({i \in Attempts : att'[i].pc # "idle"}) <= MaxLive

NextChannels ==
    \/ Lifecycle
    \/ \E i \in Attempts, payload \in ChannelPayloads :
        \/ ClientUserEvent(i, payload)
        \/ CallingUserEvent(i, payload)
        \/ SignalwireUserEvent(i, payload)
        \/ SignalwireOther(i, payload)
        \/ SessionUserEvent(i, payload)

SpecChannels == Init /\ [][NextChannels]_vars

(***************************************************************************)
(* Properties.                                                             *)
(***************************************************************************)
Status == g.statusEl.className

\* what the teardown path leaves
TornDown(G) ==
    /\ ~G.isConnected
    /\ G.roomSession = 0
    /\ G.statusEl.className = "disconnected"
    /\ ~G.connectDisabled
    /\ G.disconnectDisabled

\* the connection state, the handle and the controls
Core(G) ==
    <<G.isConnected, G.roomSession, G.statusEl.className, G.statusEl.text,
      G.connectDisabled, G.disconnectDisabled, G.placeholder>>

\* the three displays
Displays(G) == <<G.lastGreeting, G.lastEcho, G.counterValue>>

\* G but for what the last handler wrote to the status element and logged
Lasting(G) == [G EXCEPT !.statusEl.seen = <<>>, !.logged = <<>>, !.uncaught = ""]

ConnectCalls == {"connect", "connect.noop"}
DisconnectCalls == {"disconnect", "disconnect.noop", "disconnect.nosession"}

\* the catch block of connect() ran, to its end or until it threw
FailedOps == {"connect.failed", "connect.threw"}

\* C1: when a connect step fails, whatever it failed with, the status passes
\* through error and settles at disconnected with the connected flag false
\* and the session handle cleared, and connect() called next starts a new
\* handshake instead of returning at once.
C1_FailureSettles ==
    [][ /\ op'.name \in FailedOps =>
            /\ g'.statusEl.seen = <<"error", "disconnected">>
            /\ g'.statusEl.className = "disconnected"
            /\ ~g'.isConnected
            /\ g'.roomSession = 0
            /\ att'[op'.id].failStep \in 1..6
        /\ (op.name \in FailedOps /\ op'.name \in ConnectCalls) =>
            /\ op'.name = "connect"
            /\ att'[op'.id].pc = "fetch"
            /\ g'.statusEl.className = "connecting" ]_vars

\* C2 as claimed: connect() called in state connected, or while a session
\* handle is held, starts nothing, leaves state and handle alone and logs one
\* notice.
C2_ConnectRefusedWithSession ==
    [][ (op'.name \in ConnectCalls /\ (Status = "connected" \/ g.roomSession # 0)) =>
            /\ op'.name = "connect.noop"
            /\ att' = att
            /\ g'.statusEl.className = g.statusEl.className
            /\ g'.roomSession = g.roomSession
            /\ Len(g'.logged) = 1 ]_vars

\* C3: disconnect() called when not connected and with no session handle
\* calls no hangup and changes nothing but the log, to which it adds one
\* notice; so the state stays disconnected however often it is repeated.
C3_DisconnectNoop ==
    [][ (op'.name \in DisconnectCalls /\ ~g.isConnected /\ g.roomSession = 0) =>
            /\ op'.name = "disconnect.noop"
            /\ att' = att
            /\ Lasting(g') = Lasting(g)
            /\ g'.statusEl.seen = <<>>
            /\ g'.logged = <<LogEntry("system", "Not connected")>> ]_vars

\* C3 witness: disconnect() returned at once in state disconnected, after a
\* session had been dialed and torn down.
C3_Witness ==
    /\ op.name = "disconnect.noop"
    /\ Status = "disconnected"
    /\ att[1].session
    /\ g.logged = <<LogEntry("system", "Not connected")>>

\* C4: every run of the teardown path leaves connected flag false, handle
\* cleared, status disconnected, connect enabled and disconnect disabled, and
\* one more run from there changes none of the connection state.
C4_TeardownIdempotent ==
    op.name \in TeardownOps =>
        /\ TornDown(g)
        /\ g.placeholder
        /\ Core(handleDisconnect(Enter(g))) = Core(g)

\* C4 witness: room.left and destroy of the same session ran the teardown
\* path one right after the other.
C4_Witness ==
    /\ op.name = "destroy"
    /\ op.nth = 2
    /\ "room.left" \in att[op.id].fired
    /\ "room.joined" \in att[op.id].fired
    /\ TornDown(g)

\* C5 as claimed: the connect control is enabled exactly when the status is
\* not connected, the disconnect control exactly when it is connected.
C5_ButtonsFollowStatus ==
    /\ ~g.connectDisabled <=> Status # "connected"
    /\ ~g.disconnectDisabled <=> Status = "connected"

\* C5 amended: the connect control is enabled exactly when the connected flag
\* is false, the disconnect control exactly when it is true, and the flag is
\* true whenever the status is connected.
C5_ButtonsFollowFlag ==
    /\ ~g.connectDisabled <=> ~g.isConnected
    /\ ~g.disconnectDisabled <=> g.isConnected
    /\ Status = "connected" => g.isConnected

\* C5 witness: disconnect() is awaiting the hangup of a joined session; the
\* status is disconnecting and the controls still show the connected flag.
C5_Witness ==
    /\ op.name = "disconnect"
    /\ Status = "disconnecting"
    /\ g.isConnected
    /\ g.connectDisabled
    /\ ~g.disconnectDisabled

\* the last n entries of a sequence
LastN(seq, n) ==
    IF Len(seq) <= n THEN seq ELSE SubSeq(seq, Len(seq) - n + 1, Len(seq))

\* C6: the event log never holds more than 50 entries, and holds the last 50
\* entries appended (all of them while there are at most 50), oldest first.
C6_LogKeepsLast50 ==
    /\ Len(eventLog) <= 50
    /\ eventLog = LastN(appended, 50)

\* C6 witness: 51 entries were appended; 50 are left, the first is gone and
\* the 51st is the newest.
C6_Witness ==
    /\ Len(appended) = 51
    /\ Len(eventLog) = 50
    /\ eventLog[50] = appended[51]
    /\ eventLog[1] = appended[2]
    /\ \A j \in 1..50 : eventLog[j] # appended[1]

\* the payload carries a string type that is not a reserved one
Reserved ==
    {"room.joined", "room.left", "member.joined", "member.left",
     "playback.started", "playback.ended"}

HasAppType(p) ==
    /\ p.t = "object"
    /\ "type" \in DOMAIN p.v
    /\ p.v["type"].t = "string"
    /\ p.v["type"].v \notin Reserved

\* C7: the handler logs an entry (and may update a display) exactly when the
\* payload it unwrapped carries a string type that is not reserved; otherwise
\* it changes no display and logs nothing.
C7_ProducedIffAppType ==
    [][ op'.name = "user_event" =>
            IF HasAppType(unwrap(op'.raw))
            THEN /\ Len(g'.logged) = 1
                 /\ eventLog' = logEvent(eventLog, g'.logged[1].type, g'.logged[1].message)
                 /\ eventLog' # eventLog
            ELSE /\ g'.logged = <<>>
                 /\ Displays(g') = Displays(g)
                 /\ eventLog' = eventLog ]_vars

\* C7 witness: an event wrapped in { event } whose type is reserved was
\* dropped, after a greeting had been rendered.
C7_Witness ==
    /\ op.name = "user_event"
    /\ op.raw = Obj("event" :> Obj(Typed("room.joined")))
    /\ g.logged = <<>>
    /\ g.lastGreeting = "Hello, Ana!"
    /\ Len(eventLog) = 3

\* the value of property k of payload p, or d when p has no property k
FieldOr(p, k, d) == IF k \in DOMAIN p.v THEN p.v[k] ELSE d

\* C8 as claimed: greeting, echo and counter_updated render and log each field
\* with the supplied value whenever the field is present, and with its
\* default exactly when it is absent.
C8_DefaultsOnlyWhenAbsent ==
    (op.name = "user_event" /\ HasAppType(unwrap(op.raw))) =>
        LET p == unwrap(op.raw)
            type == p.v["type"].v
            name == ToText(FieldOr(p, "name", Str("Unknown")))
            message == ToText(FieldOr(p, "message", Str("")))
            count == ToText(FieldOr(p, "count", Num(0)))
            increment == ToText(FieldOr(p, "increment", Num(1)))
        IN /\ type = "greeting" =>
                /\ g.lastGreeting = "Hello, " \o name \o "!"
                /\ g.logged = <<LogEntry("greeting", "Greeted: " \o name)>>
           /\ type = "echo" =>
                /\ g.lastEcho = "\"" \o message \o "\""
                /\ g.logged = <<LogEntry("echo", "Echoed: " \o message)>>
           /\ type = "counter_updated" =>
                /\ g.counterValue = count
                /\ g.logged = <<LogEntry("counter",
                        "Counter: " \o count \o " (+" \o increment \o ")")>>

\* C9: an event whose string type is neither reserved nor greeting, echo or
\* counter_updated adds exactly one entry of kind unknown that names the
\* type, and leaves the three displays as they were.
C9_UnknownSurfaced ==
    [][ ( /\ op'.name = "user_event"
          /\ HasAppType(unwrap(op'.raw))
          /\ unwrap(op'.raw).v["type"].v \notin {"greeting", "echo", "counter_updated"} ) =>
            LET entry == LogEntry("unknown",
                                  "Unknown event: " \o unwrap(op'.raw).v["type"].v)
            IN /\ g'.logged = <<entry>>
               /\ Len(eventLog) < 50 => eventLog' = Append(eventLog, entry)
               /\ Displays(g') = Displays(g) ]_vars

\* C9 witness: an event of type foobar was logged as unknown after a counter
\* update, whose display is still there.
C9_Witness ==
    /\ op.name = "user_event"
    /\ unwrap(op.raw) = Obj(Typed("foobar"))
    /\ g.logged = <<LogEntry("unknown", "Unknown event: foobar")>>
    /\ eventLog[Len(eventLog)] = LogEntry("unknown", "Unknown event: foobar")
    /\ g.counterValue = "5"

\* C10: after room.left, destroy, a disconnect() that had a session to hang
\* up or that found none, or a failed connect has been handled, the session
\* handle is null and the connected flag is false.
C10_HandleCleared ==
    op.name \in {"room.left", "destroy", "hangup.resolved", "hangup.rejected",
                 "hangup.threw", "disconnect.nosession", "connect.failed",
                 "connect.threw"} =>
        /\ g.roomSession = 0
        /\ ~g.isConnected

\* The connection state every completed disconnect() leaves.
Settled == <<FALSE, 0, "disconnected", "Disconnected", FALSE, TRUE, TRUE>>

\* C11: a disconnect() that has a session and whose hangup fails, by rejecting
\* or by throwing at the call, is not fatal: the teardown has run, the state
\* never passes through Error, and it settles in exactly the state a
\* successful hangup leaves, disconnected with the handle cleared.
C11_HangupFailureNotFatal ==
    op.name \in {"hangup.resolved", "hangup.rejected", "hangup.threw"} =>
        /\ Core(g) = Settled
        /\ TornDown(g)
        /\ g.roomSession = 0
        /\ g.statusEl.seen[Len(g.statusEl.seen)] = "disconnected"
        /\ \A k \in 1..Len(g.statusEl.seen) : g.statusEl.seen[k] # "error"
        /\ \A k \in 1..Len(g.logged) : g.logged[k].type # "error"

\* C11 witness: the hangup of a joined session was rejected and the page is
\* disconnected, with no handle.
C11_Witness ==
    /\ op.name = "hangup.rejected"
    /\ att[op.id].fired = {"room.joined"}
    /\ att[op.id].pending = 0
    /\ Core(g) = Settled

\* C12: a handshake creates its client only after its own fetch has returned
\* a token, with that token, and dials only the destination its own fetch
\* returned, also when handshakes overlap.
C12_OwnCredentials ==
    \A i \in Attempts :
        /\ att[i].clientToken # "" =>
              att[i].token # "" /\ att[i].clientToken = att[i].token
        /\ att[i].dialTo # "" =>
              att[i].address # "" /\ att[i].dialTo = att[i].address

\* raw has a property k, whatever its value
HasField(raw, k) == raw.t = "object" /\ k \in DOMAIN raw.v

\* raw has a property k whose value is not undefined, null, "" or 0
HasValue(raw, k) == HasField(raw, k) /\ Truthy(raw.v[k])

\* the payload by the precedence params, then event, then the raw object
ParamsFirst(raw) ==
    IF HasField(raw, "params") THEN raw.v["params"]
    ELSE IF HasField(raw, "event") THEN raw.v["event"]
    ELSE raw

\* the payload by the precedence event, then params, then the raw object,
\* a wrapper counting only when its value is truthy
EventFirst(raw) ==
    IF HasValue(raw, "event") THEN raw.v["event"]
    ELSE IF HasValue(raw, "params") THEN raw.v["params"]
    ELSE raw

\* C13 as claimed: the handler treats a raw event as it treats the payload
\* picked by the precedence params, then event, then the raw object, so that
\* params wins when both are present.
C13_ParamsThenEvent ==
    [][op'.name = "user_event" =>
          g' = handleUserEvent(Enter(g), ParamsFirst(op'.raw))]_vars

\* C13: the handler treats a raw event as it treats the payload picked by the
\* precedence event, then params, then the raw object: event wins when both
\* are present, and a wrapper whose value is null, undefined, "" or 0 is
\* passed over.
C13_EventThenParams ==
    [][op'.name = "user_event" =>
          /\ unwrap(op'.raw) = EventFirst(op'.raw)
          /\ g' = handleUserEvent(Enter(g), EventFirst(op'.raw))]_vars

\* C13 witness: an event carrying a greeting as params and an echo as event
\* was handled as the echo.
C13_Witness ==
    /\ op.name = "user_event"
    /\ op.raw = Obj(("params" :> Obj(Typed("greeting") @@ ("name" :> Str("Ana"))))
                    @@ ("event" :> Obj(Typed("echo") @@ ("message" :> Str("hi")))))
    /\ g.logged = <<LogEntry("echo", "Echoed: hi")>>
    /\ g.lastEcho = "\"hi\""
    /\ g.lastGreeting = NoText

\* what the steps of a handshake have done so far
Progress(A) ==
    <<A.token, A.address, A.clientToken, A.subs, A.dialTo, A.session,
      A.handlers, A.started>>

\* every step of handshake A that has acted was preceded by the steps before it
InOrder(A) ==
    /\ A.clientToken # "" => A.token # ""
    /\ A.subs # {} => A.clientToken # ""
    /\ A.dialTo # "" => A.subs = {"user_event", "calling.user_event", "signalwire.event"}
    /\ A.session => A.dialTo # ""
    /\ A.handlers # {} => A.session
    /\ A.started =>
          A.handlers = {"user_event", "room.joined", "room.left", "destroy"}

\* nothing of the steps after the failed one has happened
StoppedAt(A) ==
    /\ A.failStep \in 1..6
    /\ A.failStep = 1 => A.clientToken = ""
    /\ A.failStep <= 2 => A.subs = {}
    /\ A.failStep <= 3 => A.dialTo = ""
    /\ A.failStep <= 4 => ~A.session
    /\ A.failStep <= 5 => ~A.started

\* C14: the steps of a handshake run strictly in order: no client is requested
\* without the token, no dial without the client and its subscriptions, and
\* start() is called only after all session handlers are registered; after a
\* failed step none of the later steps ever acts.
C14_StepsInOrder ==
    [][\A i \in Attempts :
          /\ InOrder(att'[i])
          /\ att'[i].pc = "failed" => StoppedAt(att'[i])
          /\ att[i].pc = "failed" =>
                att'[i].pc = "failed" /\ Progress(att'[i]) = Progress(att[i])]_vars

\* C14 witness: one handshake stopped at the dial, with a client and no
\* session, while another ran all six steps after it.
C14_Witness ==
    /\ att[1].pc = "failed" /\ att[1].failStep = 4
    /\ att[1].subs # {} /\ ~att[1].session /\ ~att[1].started
    /\ att[2].pc = "done" /\ att[2].started

\* the edges of the connection state machine, by status class ("ready" is Idle)
Edges ==
    {<<"ready", "connecting">>, <<"disconnected", "connecting">>,
     <<"connecting", "connected">>, <<"connected", "disconnecting">>,
     <<"disconnecting", "disconnected">>, <<"connecting", "error">>,
     <<"error", "disconnected">>, <<"connected", "disconnected">>}

\* C15: every change of the status follows an edge of the state machine: the
\* status a handler finds and the statuses it writes, taken in order, change
\* only along Idle->Connecting, Disconnected->Connecting,
\* Connecting->Connected, Connected->Disconnecting,
\* Disconnecting->Disconnected, Connecting->Error, Error->Disconnected and
\* Connected->Disconnected.
C15_StatusEdges ==
    [][LET chain == <<g.statusEl.className>> \o g'.statusEl.seen
       IN \A k \in 1..(Len(chain) - 1) :
             chain[k] # chain[k + 1] => <<chain[k], chain[k + 1]>> \in Edges]_vars

\* the connected flag, the session handle, the status indicator and the
\* button enablement
Connection(G) ==
    <<G.isConnected, G.roomSession, G.statusEl.className, G.statusEl.text,
      G.connectDisabled, G.disconnectDisabled>>

\* the callbacks of the event channels
EventOps == {"deliver", "signalwire.other"}

\* connect(), disconnect(), the teardown path and the session's handlers
ConnectionOps ==
    {"connect", "connect.token", "connect.client", "connect.dialed",
     "connect.failed", "connect.threw", "room.joined", "room.left", "destroy",
     "disconnect",
     "disconnect.nosession", "hangup.resolved", "hangup.rejected",
     "hangup.threw"}

\* the handler leaves the connection as it is in G for every raw event explored
FrameOn(G) ==
    \A raw \in RawEvents :
        Connection(handleUserEvent(Enter(G), raw)) = Connection(G)

\* C16: a callback of an event channel leaves the connected flag, the session
\* handle, the status indicator and the button enablement as it found them,
\* whatever the event and the state, and writes no status at all (in every
\* lifecycle state, met before the first delivery, this is so for each of the
\* raw events of the event specification as well); whenever
\* one of them changes, connect(), disconnect(), the teardown path or a
\* room.joined, room.left or destroy handler made the change.
C16_EventsLeaveConnection ==
    [][/\ op'.name \in EventOps =>
            /\ Connection(g') = Connection(g)
            /\ g'.statusEl.seen = <<>>
            /\ g'.client = g.client
            /\ att' = att
       /\ (op'.name \in EventOps /\ calls.events = 0) => FrameOn(g)
       /\ Connection(g') # Connection(g) => op'.name \in ConnectionOps]_vars

\* C16 witness: a greeting arrived on the session's channel while connected,
\* was rendered, and the page is still connected to that session.
C16_Witness ==
    /\ op.name = "deliver"
    /\ op.channel = "session user_event"
    /\ g.lastGreeting = "Hello, Ana!"
    /\ g.logged = <<LogEntry("greeting", "Greeted: Ana")>>
    /\ g.isConnected
    /\ g.roomSession = op.id
    /\ Status = "connected"
    /\ g.connectDisabled /\ ~g.disconnectDisabled

\* what handling the payload once, on the page as loaded, renders and logs
Once(payload) == handleUserEvent(InitG, payload)

\* C17: deliveries of the same event are not deduplicated: after the same
\* payload has arrived k times in a row, on any of the client's user_event,
\* calling.user_event and signalwire.event channels and the session's
\* user_event channel, the last delivery has rendered and logged it as a single
\* delivery on a fresh page does, and the k deliveries have made k logEvent
\* calls for it (none when the type is reserved), whatever the connection
\* state.
C17_NoDeduplication ==
    op.name = "deliver" =>
        LET once == Once(op.payload)
            n == Len(once.logged)
        IN /\ g.logged = once.logged
           /\ n = IF HasAppType(op.payload) THEN 1 ELSE 0
           /\ Cardinality(op.via) <= op.run
           /\ Len(op.entries) = op.run * n
           /\ \A j \in 1..Len(op.entries) : op.entries[j] = once.logged[1]
           /\ once.lastGreeting # NoText => g.lastGreeting = once.lastGreeting
           /\ once.counterValue # NoText => g.counterValue = once.counterValue

\* C17 witness: one greeting arrived on all four channels of a connected
\* handshake and four entries were logged for it.
C17_Witness ==
    /\ op.name = "deliver"
    /\ op.payload = Obj(Typed("greeting") @@ ("name" :> Str("Ana")))
    /\ op.run = 4
    /\ op.via = {"client user_event", "client calling.user_event",
                 "client signalwire.event", "session user_event"}
    /\ g.isConnected
    /\ op.entries = [j \in 1..4 |-> LogEntry("greeting", "Greeted: Ana")]

\* C18: whenever the connected flag is true the session handle is not null,
\* under every interleaving of handshakes, notifications and teardowns.
C18_ConnectedHasSession == g.isConnected => g.roomSession # 0

\* C19: a teardown run on behalf of an earlier session (its room.left or
\* destroy handler, the continuation of a disconnect() that hung it up, the
\* failure of the connect() that created it) leaves the handle and the
\* connected flag of a session created by a later connect() as they are.
C19_TeardownOfEarlierSession ==
    [][(/\ op'.name \in TeardownOps
        /\ op'.id # 0
        /\ att[op'.id].session
        /\ g.roomSession # 0
        /\ op'.id < g.roomSession)
          => /\ g'.roomSession = g.roomSession
             /\ g'.isConnected = g.isConnected]_vars

\* handshakes between connect() and the end of their start(), and sessions
\* that exist and have neither been hung up nor reported room.left or destroy
InFlight == {i \in Attempts : att[i].pc \in {"fetch", "json", "init", "dial", "start"}}

Ended(i) == att[i].hangups > 0 \/ att[i].fired \cap {"room.left", "destroy"} # {}

Live == {i \in Attempts : att[i].session /\ ~Ended(i)}

\* every session a dial returned is the current handle or has ended
SessionsKept ==
    \A i \in Attempts : att[i].session => (g.roomSession = i \/ Ended(i))

\* C20: no session is leaked: every session a dial returned is the current
\* handle, or was hung up, or has reported room.left or destroy (so also a
\* session whose start() failed); there is at most one handshake in flight and
\* at most one live session.
C20_NoSessionLeaked ==
    /\ SessionsKept
    /\ Cardinality(InFlight) <= 1
    /\ Cardinality(Live) <= 1

=============================================================================
